---- MODULE Spec2Model ----
(***************************************************************************)
(* Model of smartjs/platforms/esp8266/tools/serve_core.py: the Core memory *)
(* model (core-dump regions + firmware regions, first-hit lookup) and the  *)
(* GDB remote-protocol session served by GDBHandler.                       *)
(*                                                                         *)
(* Representation.  A Python str holding text (wire bytes, packet          *)
(* payloads, file name stems) is a sequence of one-character strings; a    *)
(* Python str holding binary data (registers, memory) is a sequence of     *)
(* byte values 0..255.  None is the empty sequence and a present optional  *)
(* value v is <<v>>.  An operation that can raise returns a record whose   *)
(* ok field is FALSE and whose err field names the exception.              *)
(***************************************************************************)
EXTENDS Integers, Sequences, FiniteSets, TLC

(***************************************************************************)
(* Bounds of the model.                                                    *)
(***************************************************************************)
\* highest address a core-dump region or an explicit firmware address takes
MaxAddr == 3
\* largest size of a Core.read request made directly on the Core
MaxSize == 3
\* largest number of memory regions in a dump record
MaxRegions == 2
\* number of connections the server accepts
MaxConns == 2
\* number of frames the debugger sends on one connection
MaxFrames == 2
\* the log is up to MaxWindows steps of the backward search long
MaxWindows == 3

(***************************************************************************)
(* Program constants.                                                      *)
(***************************************************************************)
IRAM_BASE == 1074790400
IROM_BASE == 1075838976
ROM_BASE == 1073741824

None == <<>>
Some(v) == <<v>>

Min(a, b) == IF a < b THEN a ELSE b
Max(a, b) == IF a > b THEN a ELSE b

(***************************************************************************)
(* ord(): the printable ASCII characters, code 32 (space) to 126 (~); the   *)
(* entry BACKQUOTE stands for code 96.                                     *)
(***************************************************************************)
Ascii ==
  << " ", "!", "\"", "#", "$", "%", "&", "'", "(", ")", "*", "+", ",", "-",
     ".", "/", "0", "1", "2", "3", "4", "5", "6", "7", "8", "9", ":", ";",
     "<", "=", ">", "?", "@", "A", "B", "C", "D", "E", "F", "G", "H", "I",
     "J", "K", "L", "M", "N", "O", "P", "Q", "R", "S", "T", "U", "V", "W",
     "X", "Y", "Z", "[", "\\", "]", "^", "_", "BACKQUOTE", "a", "b", "c", "d", "e",
     "f", "g", "h", "i", "j", "k", "l", "m", "n", "o", "p", "q", "r", "s",
     "t", "u", "v", "w", "x", "y", "z", "{", "|", "}", "~" >>

ord(c) == 31 + (CHOOSE i \in 1..Len(Ascii) : Ascii[i] = c)

LowerHex ==
  << "0", "1", "2", "3", "4", "5", "6", "7", "8", "9",
     "a", "b", "c", "d", "e", "f" >>
UpperHex ==
  << "0", "1", "2", "3", "4", "5", "6", "7", "8", "9",
     "A", "B", "C", "D", "E", "F" >>

IsHexDigit(c) == \E i \in 1..16 : LowerHex[i] = c \/ UpperHex[i] = c
HexDigitVal(c) == (CHOOSE i \in 1..16 : LowerHex[i] = c \/ UpperHex[i] = c) - 1

\* the value of a non-empty run of hexadecimal digits
RECURSIVE HexDigitsVal(_)
HexDigitsVal(s) ==
  IF s = <<>> THEN 0
  ELSE 16 * HexDigitsVal(SubSeq(s, 1, Len(s) - 1)) + HexDigitVal(s[Len(s)])

AllHex(s) == \A i \in 1..Len(s) : IsHexDigit(s[i])

\* s[n:] for n >= 0
Drop(s, n) == SubSeq(s, n + 1, Len(s))

\* s.startswith(p)
startswith(s, p) == Len(s) >= Len(p) /\ SubSeq(s, 1, Len(p)) = p

(***************************************************************************)
(* int(s, 16): an optional sign, an optional 0x prefix, then one or more   *)
(* hexadecimal digits of either case; anything else raises ValueError.     *)
(* (Surrounding white space, which int() strips, is not modelled.)         *)
(***************************************************************************)
int16(s) ==
  LET neg == s # <<>> /\ s[1] = "-"
      s1 == IF s # <<>> /\ s[1] \in {"+", "-"} THEN Drop(s, 1) ELSE s
      s2 == IF Len(s1) >= 2 /\ s1[1] = "0" /\ s1[2] \in {"x", "X"}
            THEN Drop(s1, 2) ELSE s1
  IN IF s2 # <<>> /\ AllHex(s2)
     THEN [ok |-> TRUE,
           val |-> IF neg THEN 0 - HexDigitsVal(s2) ELSE HexDigitsVal(s2)]
     ELSE [ok |-> FALSE, err |-> "ValueError"]

(***************************************************************************)
(* "{0:02x}".format(n) for n >= 0: lowercase hexadecimal, zero-padded to   *)
(* at least two digits (more digits when n > 255).                         *)
(***************************************************************************)
RECURSIVE HexStr(_)
HexStr(n) ==
  IF n < 16 THEN <<LowerHex[n + 1]>>
  ELSE HexStr(n \div 16) \o <<LowerHex[(n % 16) + 1]>>

Fmt02x(n) == IF n < 16 THEN <<"0">> \o HexStr(n) ELSE HexStr(n)

\* data[i:j] for 0 <= i; a negative j counts from the end of data
Slice(data, i, j) ==
  SubSeq(data, i + 1, IF j < 0 THEN Max(j + Len(data), 0) ELSE Min(j, Len(data)))

\* "\0" * size
Zeros(size) == [i \in 1..Max(size, 0) |-> 0]

(***************************************************************************)
(* Core                                                                    *)
(***************************************************************************)

\* a decoder that also passes over objects lacking addr or data
RECURSIVE _map_core_skips_incomplete(_)
_map_core_skips_incomplete(core) ==
  IF core = <<>> THEN [ok |-> TRUE, mem |-> <<>>]
  ELSE LET k == core[1].k
           v == core[1].v
           rest == _map_core_skips_incomplete(Drop(core, 1))
       IN IF ~v.isdict \/ k = "REGS" THEN rest
          ELSE IF "data" \notin v.has \/ "addr" \notin v.has THEN rest
          ELSE IF ~rest.ok THEN rest
          ELSE [ok |-> TRUE,
                mem |-> <<[base |-> v.addr, end |-> v.addr + Len(v.data),
                           data |-> v.data]>> \o rest.mem]

(***************************************************************************)
(* Core._map_core.  core is the dump record in the order core.items()      *)
(* yields it: a sequence of [k, v] with v = [isdict, has, addr, data],     *)
(* has being the set of keys the JSON object v carries and data the        *)
(* base64-decoded payload.                                                 *)
(***************************************************************************)
RECURSIVE _map_core(_)
_map_core(core) ==
  IF core = <<>> THEN [ok |-> TRUE, mem |-> <<>>]
  ELSE LET k == core[1].k
           v == core[1].v
           rest == _map_core(Drop(core, 1))
       IN IF ~v.isdict \/ k = "REGS" THEN rest
          ELSE IF "data" \notin v.has \/ "addr" \notin v.has
               THEN [ok |-> FALSE, err |-> "KeyError"]
          ELSE IF ~rest.ok THEN rest
          ELSE [ok |-> TRUE,
                mem |-> <<[base |-> v.addr, end |-> v.addr + Len(v.data),
                           data |-> v.data]>> \o rest.mem]

\* a loader that maps every image at its nominal address
_map_firmware_no_relocation(addr, filename, base) ==
  LET named == IF filename = None THEN [ok |-> FALSE, err |-> "TypeError"]
               ELSE int16(filename[1].name)
      a0 == IF addr = None THEN base + named.val ELSE addr[1]
      data == filename[1].data
      a1 == a0
  IN IF addr = None /\ ~named.ok THEN named
     ELSE IF filename = None THEN [ok |-> FALSE, err |-> "TypeError"]
     ELSE IF ~filename[1].readable THEN [ok |-> FALSE, err |-> "IOError"]
     ELSE IF Len(data) < 2 THEN [ok |-> FALSE, err |-> "IndexError"]
     ELSE [ok |-> TRUE,
           region |-> [base |-> a1, end |-> a1 + Len(data), data |-> data]]

(***************************************************************************)
(* Core._map_firmware.  addr is None or Some(address); filename is None or *)
(* Some(file), a file being [name, readable, data] with name the stem of   *)
(* its base name.                                                          *)
(***************************************************************************)
_map_firmware(addr, filename, base) ==
  LET named == IF filename = None THEN [ok |-> FALSE, err |-> "TypeError"]
               ELSE int16(filename[1].name)
      a0 == IF addr = None THEN base + named.val ELSE addr[1]
      data == filename[1].data
      a1 == IF data[1] = 234 /\ data[2] = 4 THEN a0 + 16 ELSE a0
  IN IF addr = None /\ ~named.ok THEN named
     ELSE IF filename = None THEN [ok |-> FALSE, err |-> "TypeError"]
     ELSE IF ~filename[1].readable THEN [ok |-> FALSE, err |-> "IOError"]
     ELSE IF Len(data) < 2 THEN [ok |-> FALSE, err |-> "IndexError"]
     ELSE [ok |-> TRUE,
           region |-> [base |-> a1, end |-> a1 + Len(data), data |-> data]]

\* dump['REGS']['data']
DumpRegs(dump) ==
  LET hits == {i \in 1..Len(dump) : dump[i].k = "REGS"}
      v == dump[CHOOSE i \in hits : TRUE].v
  IN IF hits = {} THEN [ok |-> FALSE, err |-> "KeyError"]
     ELSE IF ~v.isdict THEN [ok |-> FALSE, err |-> "TypeError"]
     ELSE IF "data" \notin v.has THEN [ok |-> FALSE, err |-> "KeyError"]
     ELSE [ok |-> TRUE, regs |-> v.data]

\* Core.__init__ appending the dump's regions after the firmware regions
MemOrder_firmware_first(coremem, fwmem) == fwmem \o coremem

\* the order in which Core.__init__ assembles self.mem
MemOrder(coremem, fwmem) == coremem \o fwmem

\* a constructor that maps an empty snapshot when the log holds no dump
CoreInit_empty_on_missing_dump(a, log) ==
  LET dump == log[1]
      cm == _map_core(dump)
      iram == _map_firmware(a.iram_addr, Some(a.iram), IRAM_BASE)
      irom == _map_firmware(a.irom_addr, Some(a.irom), IROM_BASE)
      withrom == a.rom_addr # None /\ a.rom_addr[1] # 0
      rom == _map_firmware(a.rom_addr, a.rom, ROM_BASE)
      regs == DumpRegs(dump)
  IN IF log = None THEN [ok |-> TRUE, mem |-> <<>>, regs |-> <<>>]
     ELSE IF ~cm.ok THEN cm
     ELSE IF ~iram.ok THEN iram
     ELSE IF ~irom.ok THEN irom
     ELSE IF withrom /\ ~rom.ok THEN rom
     ELSE IF ~regs.ok THEN regs
     ELSE [ok |-> TRUE,
           mem |-> MemOrder(cm.mem,
                            <<iram.region, irom.region>>
                              \o (IF withrom THEN <<rom.region>> ELSE <<>>)),
           regs |-> regs.regs]

(***************************************************************************)
(* Core.__init__.  log is what Core._read returns for args.log: None when  *)
(* a delimiter is missing or the JSON is malformed, else Some(dump).       *)
(***************************************************************************)
CoreInit(a, log) ==
  LET dump == log[1]
      cm == _map_core(dump)
      iram == _map_firmware(a.iram_addr, Some(a.iram), IRAM_BASE)
      irom == _map_firmware(a.irom_addr, Some(a.irom), IROM_BASE)
      withrom == a.rom_addr # None /\ a.rom_addr[1] # 0
      rom == _map_firmware(a.rom_addr, a.rom, ROM_BASE)
      regs == DumpRegs(dump)
  IN IF log = None THEN [ok |-> FALSE, err |-> "ReadError"]
     ELSE IF ~cm.ok THEN cm
     ELSE IF ~iram.ok THEN iram
     ELSE IF ~irom.ok THEN irom
     ELSE IF withrom /\ ~rom.ok THEN rom
     ELSE IF ~regs.ok THEN regs
     ELSE [ok |-> TRUE,
           mem |-> MemOrder(cm.mem,
                            <<iram.region, irom.region>>
                              \o (IF withrom THEN <<rom.region>> ELSE <<>>)),
           regs |-> regs.regs]

\* the test of Core.read's loop: does region r serve a request at addr
Hit(r, addr, size) == addr >= r.base /\ addr < r.end

\* index of the region at which Core.read's loop returns, 0 when it falls through
FirstHit(mem, addr, size) ==
  LET hits == {i \in 1..Len(mem) : Hit(mem[i], addr, size)}
  IN IF hits = {} THEN 0 ELSE CHOOSE i \in hits : \A j \in hits : i <= j

\* Core.read, for addr >= 0 and size >= 0
read(mem, addr, size) ==
  LET i == FirstHit(mem, addr, size)
  IN IF i = 0 THEN Zeros(size)
     ELSE Slice(mem[i].data, addr - mem[i].base, addr - mem[i].base + size)

\* the arguments of sendall() in send_ack and send_nack
ACK == <<"+">>
NACK == <<"-">>

\* the string literals of GDBHandler.handle
PKT_STATUS == <<"?">>
PKT_g == <<"g">>
PKT_Hg == <<"H", "g">>
PKT_Hc == <<"H", "c", "-", "1">>
PKT_qC == <<"q", "C">>
PKT_qTStatus == <<"q", "T", "S", "t", "a", "t", "u", "s">>
PKT_qOffsets == <<"q", "O", "f", "f", "s", "e", "t", "s">>
PKT_qSupported == <<"q", "S", "u", "p", "p", "o", "r", "t", "e", "d">>
PKT_qAttached == <<"q", "A", "t", "t", "a", "c", "h", "e", "d">>
PKT_qSymbol == <<"q", "S", "y", "m", "b", "o", "l", ":", ":">>
TXT_S09 == <<"S", "0", "9">>
TXT_OK == <<"O", "K">>
TXT_E01 == <<"E", "0", "1">>

(***************************************************************************)
(* GDBHandler                                                              *)
(***************************************************************************)
RECURSIVE SumOrd(_)
SumOrd(s) == IF s = <<>> THEN 0 ELSE ord(s[1]) + SumOrd(Drop(s, 1))

\* _checksum without the reduction modulo 0x100
_checksum_unreduced(s) == SumOrd(s)

\* GDBHandler._checksum
_checksum(s) == SumOrd(s) % 256

\* the argument of sendall() in GDBHandler.send_str
send_str(s) == <<"$">> \o s \o <<"#">> \o Fmt02x(_checksum(s))

\* GDBHandler.encode_bytes
RECURSIVE encode_bytes(_)
encode_bytes(bs) ==
  IF bs = <<>> THEN <<>> ELSE Fmt02x(bs[1]) \o encode_bytes(Drop(bs, 1))

\* hex decoding that takes the low digit of each pair first
RECURSIVE HexPairs_swapped(_)
HexPairs_swapped(s) ==
  IF s = <<>> THEN <<>>
  ELSE <<16 * HexDigitVal(s[2]) + HexDigitVal(s[1])>> \o HexPairs_swapped(Drop(s, 2))

RECURSIVE HexPairs(_)
HexPairs(s) ==
  IF s = <<>> THEN <<>>
  ELSE <<16 * HexDigitVal(s[1]) + HexDigitVal(s[2])>> \o HexPairs(Drop(s, 2))

\* GDBHandler.decode_bytes: s.decode('hex')
decode_bytes(s) ==
  IF Len(s) % 2 = 0 /\ AllHex(s)
  THEN [ok |-> TRUE, val |-> HexPairs(s)]
  ELSE [ok |-> FALSE, err |-> "TypeError"]

\* s.split(sep)
RECURSIVE split(_, _)
split(s, sep) ==
  IF \A i \in 1..Len(s) : s[i] # sep THEN <<s>>
  ELSE LET i == CHOOSE i \in 1..Len(s) :
                  s[i] = sep /\ \A j \in 1..(i - 1) : s[j] # sep
       IN <<SubSeq(s, 1, i - 1)>> \o split(Drop(s, i), sep)

\* a reply that leaves the register buffer empty
Reply_drops_registers(regs, msg, br) ==
  [ok |-> TRUE, regs |-> <<>>, out |-> <<msg>>, branch |-> br]

Reply(regs, msg, br) ==
  [ok |-> TRUE, regs |-> regs, out |-> <<msg>>, branch |-> br]
Raise(err, br) == [ok |-> FALSE, err |-> err, branch |-> br]

(***************************************************************************)
(* The body of handle's loop after read_packet has returned pkt: the       *)
(* dispatch chain.  c is the Core.  The result carries the new registers,  *)
(* the sendall() calls made and the branch taken, or the exception raised. *)
(***************************************************************************)
handle_packet(c, p) ==
  IF p = PKT_STATUS THEN Reply(c.regs, send_str(TXT_S09), "?")
  ELSE IF p = PKT_g THEN Reply(c.regs, send_str(encode_bytes(c.regs)), "g")
  ELSE IF p = <<>> THEN Raise("IndexError", "none")
  ELSE IF p[1] = "G" THEN
    LET d == decode_bytes(Drop(p, 1))
    IN IF d.ok THEN Reply(d.val, send_str(TXT_OK), "G") ELSE Raise(d.err, "G")
  ELSE IF p[1] = "m" THEN
    LET parts == split(Drop(p, 1), ",")
        addr == int16(parts[1])
        size == int16(parts[2])
    IN IF Len(parts) # 2 THEN Raise("ValueError", "m")
       ELSE IF ~addr.ok THEN Raise(addr.err, "m")
       ELSE IF ~size.ok THEN Raise(size.err, "m")
       ELSE Reply(c.regs,
                  send_str(encode_bytes(read(c.mem, addr.val, size.val))), "m")
  ELSE IF startswith(p, PKT_Hg) THEN Reply(c.regs, send_str(TXT_OK), "Hg")
  ELSE IF startswith(p, PKT_Hc) THEN Reply(c.regs, send_str(TXT_E01), "Hc-1")
  ELSE IF p = PKT_qC THEN Reply(c.regs, send_str(<<"1">>), "qC")
  ELSE IF p = PKT_qTStatus \/ p = PKT_qOffsets \/ startswith(p, PKT_qSupported)
    THEN Reply(c.regs, send_str(<<>>), "ignore")
  ELSE IF p = PKT_qAttached THEN Reply(c.regs, send_str(<<"1">>), "qAttached")
  ELSE IF p = PKT_qSymbol THEN Reply(c.regs, send_str(TXT_OK), "qSymbol")
  ELSE Reply(c.regs, send_str(<<>>), "unknown")

(***************************************************************************)
(* The diagnostic read_packet prints on a checksum mismatch:               *)
(*   "... want: {2:02x}".format(pkt, chk, "want:", self._checksum(pkt))    *)
(* Argument 2 is the str "want:", which the format code x does not accept: *)
(* format() raises ValueError.                                             *)
(***************************************************************************)
BadChecksumDiagnostic(p, c) == [ok |-> FALSE, err |-> "ValueError"]

(***************************************************************************)
(* read_packet once pkt and chk are read: what it sends and returns, or    *)
(* the exception it raises.                                                *)
(***************************************************************************)
read_packet_judge(p, c) ==
  LET got == int16(c)
      diag == BadChecksumDiagnostic(p, c)
  IN IF Len(c) # 2 THEN [ok |-> TRUE, out |-> <<>>, ret |-> <<>>]
     ELSE IF ~got.ok THEN got
     ELSE IF got.val # _checksum(p)
          THEN IF ~diag.ok THEN diag
               ELSE [ok |-> TRUE, out |-> <<NACK>>, ret |-> <<>>]
     ELSE [ok |-> TRUE, out |-> <<ACK>>, ret |-> p]

\* expect_packet_start's test of what read_until('$') returned
PacketStarted(b) == Len(b) > 0

(***************************************************************************)
(* State.                                                                  *)
(*   args     the parsed command line (module-level args)                  *)
(*   log      what Core._read yields for args.log                          *)
(*   conn     number of connections accepted so far                        *)
(*   pc       where the handler stands: "idle" (no connection), "await"    *)
(*            (read_until('$')), "payload" (read_until('#')), "chk1",      *)
(*            "chk2" (the two recv(1) of read_packet), "closed" (handle    *)
(*            returned), "error" (handle raised); "loaded" for a Core      *)
(*            built outside a connection                                   *)
(*   core     the handler's Core: [mem, regs], or NoCore                   *)
(*   wire     bytes the debugger has sent and the handler has not read     *)
(*   eof      the debugger has closed its end of the stream                *)
(*   frames   number of frames the debugger has sent on this connection    *)
(*   buf      read_until's buf                                             *)
(*   pkt      read_packet's pkt                                            *)
(*   chk      read_packet's chk                                            *)
(*   sent     the sendall() calls made since the current packet's '$'      *)
(*   rx       the packet read_packet has just judged, with the registers   *)
(*            as they were before it                                       *)
(*   branch   the branch of handle's dispatch chain that ran for rx        *)
(*   eofSeen  a recv() of this connection has returned no byte             *)
(*   rd       the last direct Core.read request and its result             *)
(*   lastG    the hex text of the last G packet dispatched on this         *)
(*            connection, None before any                                  *)
(*   prevG    a G packet was dispatched on an earlier connection           *)
(*   file     the log file Core._read scans: its size and the offsets at   *)
(*            which the two delimiters occur                               *)
(*   sb       where Core._read and its _search_backwards loop stand        *)
(***************************************************************************)
VARIABLES args, log, conn, pc, core, wire, eof, frames, buf, pkt, chk,
          sent, rx, branch, eofSeen, rd, lastG, prevG, file, sb

vars == <<args, log, conn, pc, core, wire, eof, frames, buf, pkt, chk,
          sent, rx, branch, eofSeen, rd, lastG, prevG, file, sb>>

NoCore == [mem |-> <<>>, regs |-> <<>>, built |-> FALSE]
NoRead == [done |-> FALSE]
NoRx == [seen |-> FALSE]
NoFile == [size |-> 0, starts |-> {}, ends |-> {}]
NoSearch == [phase |-> "none"]

Range(s) == {s[i] : i \in 1..Len(s)}

(***************************************************************************)
(* Inputs: dump records and command lines.                                 *)
(***************************************************************************)
RegionNames == <<"DRAM", "IRAM", "STACK", "HEAP">>

DictValue(a, d) == [isdict |-> TRUE, has |-> {"addr", "data"}, addr |-> a, data |-> d]
RegsValue(d) == [isdict |-> TRUE, has |-> {"data"}, addr |-> 0, data |-> d]

CoreDataSet == {<<17>>, <<18, 19>>}
DumpRegsData == <<1, 2, 255>>

\* the region entries of a dump: up to MaxRegions named regions
RegionEntries ==
  UNION {[1..n -> {DictValue(a, d) : a \in 0..MaxAddr, d \in CoreDataSet}]
           : n \in 0..MaxRegions}

Keyed(vs) == [i \in 1..Len(vs) |-> [k |-> RegionNames[i], v |-> vs[i]]]

\* the REGS entry may come anywhere in core.items()
InsertAt(s, p, e) == SubSeq(s, 1, p) \o <<e>> \o SubSeq(s, p + 1, Len(s))

CoreDumps ==
  {InsertAt(Keyed(vs), p, [k |-> "REGS", v |-> RegsValue(DumpRegsData)])
     : vs \in RegionEntries, p \in {0}} \cup
  {InsertAt(Keyed(vs), Len(vs), [k |-> "REGS", v |-> RegsValue(DumpRegsData)])
     : vs \in RegionEntries}

File(name, data) == [name |-> name, readable |-> TRUE, data |-> data]

IramFile == File(<<"0">>, <<33, 34, 35>>)
IromFile == File(<<"2">>, <<234, 4, 50>>)
RomFile == File(<<"r", "o", "m">>, <<65, 66>>)

\* command lines: --iram_addr given, --irom_addr not, --rom and --rom_addr
\* given or left at their defaults
CoreArgs ==
  {[iram_addr |-> Some(a), iram |-> IramFile,
    irom_addr |-> None, irom |-> IromFile,
    rom |-> r.rom, rom_addr |-> r.rom_addr]
     : a \in 0..MaxAddr,
       r \in {[rom |-> Some(RomFile), rom_addr |-> Some(ROM_BASE)],
              [rom |-> None, rom_addr |-> Some(ROM_BASE)],
              [rom |-> None, rom_addr |-> Some(0)]}}

ReadAddrs == 0..(MaxAddr + 3) \cup {IROM_BASE + 18, IROM_BASE + 20, ROM_BASE + 1}

(***************************************************************************)
(* SpecCore: a Core is built from the command line and the log, then read. *)
(***************************************************************************)
InitCore ==
  /\ args \in CoreArgs
  /\ log \in {Some(d) : d \in CoreDumps}
  /\ conn = 0
  /\ pc = "idle"
  /\ core = NoCore
  /\ wire = <<>>
  /\ eof = FALSE
  /\ frames = 0
  /\ buf = <<>>
  /\ pkt = <<>>
  /\ chk = <<>>
  /\ sent = <<>>
  /\ rx = NoRx
  /\ branch = "none"
  /\ eofSeen = FALSE
  /\ rd = NoRead
  /\ lastG = None
  /\ prevG = FALSE
  /\ file = NoFile
  /\ sb = NoSearch

\* core = Core(args.log)
Construct ==
  /\ pc = "idle"
  /\ LET c == CoreInit(args, log)
     IN IF c.ok
        THEN /\ core' = [mem |-> c.mem, regs |-> c.regs, built |-> TRUE]
             /\ pc' = "loaded"
        ELSE /\ core' = NoCore
             /\ pc' = "error"
  /\ UNCHANGED <<file, sb, prevG, args, log, conn, wire, eof, frames, buf, pkt, chk, sent, rx,
                 branch, lastG, eofSeen, rd>>

\* core.read(addr, size); Core.read changes no state, so one read per
\* behaviour reaches every result
ReadMem ==
  /\ pc = "loaded"
  /\ ~rd.done
  /\ \E addr \in ReadAddrs, size \in 0..MaxSize :
       LET i == FirstHit(core.mem, addr, size)
       IN rd' = [done |-> TRUE, addr |-> addr, size |-> size,
                 res |-> read(core.mem, addr, size),
                 served |-> IF i = 0 THEN <<>> ELSE <<core.mem[i]>>]
  /\ UNCHANGED <<file, sb, prevG, args, log, conn, pc, core, wire, eof, frames, buf, pkt, chk,
                 sent, rx, branch, lastG, eofSeen>>

NextCore == Construct \/ ReadMem

SpecCore == InitCore /\ [][NextCore]_vars

(***************************************************************************)
(* Vocabulary of the memory-map properties.                                *)
(***************************************************************************)
Contains(r, addr) == r.base <= addr /\ addr < r.end
Covers(r, addr, size) == r.base <= addr /\ addr + size <= r.end
Disjoint(r, addr, size) == addr + size <= r.base \/ r.end <= addr

\* the regions decoded from the dump, and those loaded from firmware files
DumpRegions == _map_core(log[1]).mem
FirmwareRegions ==
  {r.region : r \in {x \in {_map_firmware(args.iram_addr, Some(args.iram), IRAM_BASE),
                            _map_firmware(args.irom_addr, Some(args.irom), IROM_BASE),
                            _map_firmware(args.rom_addr, args.rom, ROM_BASE)} : x.ok}}

\* the first element of sequence s satisfying Contains(_, addr)
FirstContaining(s, addr) ==
  s[CHOOSE i \in 1..Len(s) :
      /\ Contains(s[i], addr)
      /\ \A j \in 1..(i - 1) : ~Contains(s[j], addr)]

\* the first element of sequence s satisfying Covers(_, addr, size)
FirstCovering(s, addr, size) ==
  s[CHOOSE i \in 1..Len(s) :
      /\ Covers(s[i], addr, size)
      /\ \A j \in 1..(i - 1) : ~Covers(s[j], addr, size)]

BackingBytes(r, addr, size) == [i \in 1..size |-> r.data[addr - r.base + i]]

\* C4: a read that lies outside every region, or that starts inside a region
\* and runs past its end while no region holds the whole range, returns
\* exactly size zero bytes.
C4_UnmappedOrStraddlingReadsZeros ==
  rd.done =>
    LET outside == \A r \in Range(core.mem) : Disjoint(r, rd.addr, rd.size)
        straddling ==
          /\ \E r \in Range(core.mem) :
               Contains(r, rd.addr) /\ rd.addr + rd.size > r.end
          /\ \A r \in Range(core.mem) : ~Covers(r, rd.addr, rd.size)
    IN (outside \/ straddling) => rd.res = Zeros(rd.size)

\* C5: a read whose range lies fully inside a mapped region returns exactly
\* the size backing bytes of that range, taken from the first region that
\* holds the whole range.
C5_ReadInsideRegionReturnsBackingBytes ==
  rd.done =>
    ((\E r \in Range(core.mem) : Covers(r, rd.addr, rd.size)) =>
       rd.res = BackingBytes(FirstCovering(core.mem, rd.addr, rd.size),
                             rd.addr, rd.size))

\* C6: in every Core the dump's regions come first in mem, in front of the
\* firmware regions, and a read at an address that a dump region and a
\* firmware region both contain is served by the dump region: its first
\* byte is the byte of the first dump region containing the address.
C6_CoreDumpShadowsFirmware ==
  core.built =>
    /\ SubSeq(core.mem, 1, Len(DumpRegions)) = DumpRegions
    /\ Range(SubSeq(core.mem, Len(DumpRegions) + 1, Len(core.mem)))
         = FirmwareRegions
    /\ (/\ rd.done
        /\ rd.size >= 1
        /\ \E c \in Range(DumpRegions) : Contains(c, rd.addr)
        /\ \E f \in FirmwareRegions : Contains(f, rd.addr))
       => LET c == FirstContaining(DumpRegions, rd.addr)
          IN /\ rd.served = <<c>>
             /\ rd.res[1] = c.data[rd.addr - c.base + 1]

\* a read was made at an address held by a dump region and by a firmware
\* region whose bytes there differ
C6_Witness ==
  /\ core.built
  /\ rd.done
  /\ rd.size >= 1
  /\ \E c \in Range(DumpRegions), f \in FirmwareRegions :
       /\ Contains(c, rd.addr)
       /\ Contains(f, rd.addr)
       /\ c.data[rd.addr - c.base + 1] # f.data[rd.addr - f.base + 1]

(***************************************************************************)
(* Spec: the server accepts connections; on each, the debugger sends       *)
(* frames and may close the stream, and the handler reads byte by byte.    *)
(***************************************************************************)

\* what the debugger puts in a frame
DebuggerPayloads ==
  { <<"?">>,
    <<"g">>,
    <<"G">>,
    <<"G", "0", "0">>,
    <<"G", "0", "a", "f", "f">>,
    <<"G", "0">>,
    <<"m", "0", ",", "2">>,
    <<"m", "1", ",", "2">>,
    <<"m", "7", ",", "1">>,
    <<"m", "0">>,
    <<"m", ",", "1">>,
    <<"H", "g", "0">>,
    <<"H", "c", "-", "1">>,
    <<"q", "C">>,
    <<"q", "T", "S", "t", "a", "t", "u", "s">>,
    <<"q", "O", "f", "f", "s", "e", "t", "s">>,
    <<"q", "S", "u", "p", "p", "o", "r", "t", "e", "d", ":", "a">>,
    <<"q", "A", "t", "t", "a", "c", "h", "e", "d">>,
    <<"q", "S", "y", "m", "b", "o", "l", ":", ":">>,
    <<"z", "Z", "Z">>,
    <<>> }

WireSum(s) == SumOrd(s) % 256
WireHex(n) == <<LowerHex[(n \div 16) + 1], LowerHex[(n % 16) + 1]>>

\* a frame as the debugger sends it: after nothing or after a '+', the
\* payload between '$' and '#', then a right, a wrong or a non-hexadecimal
\* checksum
Frame(pre, p, kind) ==
  pre \o <<"$">> \o p \o <<"#">> \o
    (CASE kind = "good" -> WireHex(WireSum(p))
       [] kind = "bad" -> WireHex((WireSum(p) + 1) % 256)
       [] kind = "junk" -> <<"z", "z">>)

DebuggerFrames ==
  {Frame(pre, p, kind) : pre \in {<<>>, <<"+">>}, p \in DebuggerPayloads,
                         kind \in {"good", "bad", "junk"}}

SessionDump ==
  << [k |-> "DRAM", v |-> DictValue(0, <<17>>)],
     [k |-> "REGS", v |-> RegsValue(DumpRegsData)] >>

SessionArgs ==
  {[iram_addr |-> Some(0), iram |-> IramFile,
    irom_addr |-> None, irom |-> IromFile,
    rom |-> r, rom_addr |-> Some(ROM_BASE)] : r \in {Some(RomFile), None}}

\* a dump record whose DRAM entry lacks its data, and one without REGS
MalformedDumps ==
  { << [k |-> "DRAM",
        v |-> [isdict |-> TRUE, has |-> {"addr"}, addr |-> 0, data |-> <<>>]],
       [k |-> "REGS", v |-> RegsValue(DumpRegsData)] >>,
    << [k |-> "DRAM", v |-> DictValue(0, <<17>>)] >> }

\* a firmware file that open() cannot read, and one whose name is not hexadecimal
UnreadableFile == [name |-> <<"0">>, readable |-> FALSE, data |-> <<>>]
NonHexFile == File(<<"z">>, <<234, 4, 50>>)

\* command lines whose firmware files cannot be mapped
FailingArgs ==
  {[iram_addr |-> Some(0), iram |-> UnreadableFile,
    irom_addr |-> None, irom |-> IromFile,
    rom |-> Some(RomFile), rom_addr |-> Some(ROM_BASE)],
   [iram_addr |-> Some(0), iram |-> IramFile,
    irom_addr |-> None, irom |-> NonHexFile,
    rom |-> Some(RomFile), rom_addr |-> Some(ROM_BASE)]}

Init ==
  /\ args \in SessionArgs \cup FailingArgs
  /\ log \in {None, Some(SessionDump)} \cup {Some(d) : d \in MalformedDumps}
  /\ conn = 0
  /\ pc = "idle"
  /\ core = NoCore
  /\ wire = <<>>
  /\ eof = FALSE
  /\ frames = 0
  /\ buf = <<>>
  /\ pkt = <<>>
  /\ chk = <<>>
  /\ sent = <<>>
  /\ rx = NoRx
  /\ branch = "none"
  /\ eofSeen = FALSE
  /\ rd = NoRead
  /\ lastG = None
  /\ prevG = FALSE
  /\ file = NoFile
  /\ sb = NoSearch

Open == pc \in {"await", "payload", "chk1", "chk2"}

\* a handler that builds the Core for the first connection only and serves
\* that same Core on later connections
Accept_shared_core ==
  /\ pc \in {"idle", "closed", "error"}
  /\ conn < MaxConns
  /\ conn' = conn + 1
  /\ LET c == IF core.built
              THEN [ok |-> TRUE, mem |-> core.mem, regs |-> core.regs]
              ELSE CoreInit(args, log)
     IN IF c.ok
        THEN /\ core' = [mem |-> c.mem, regs |-> c.regs, built |-> TRUE]
             /\ pc' = "await"
        ELSE /\ core' = NoCore
             /\ pc' = "error"
  /\ wire' = <<>>
  /\ eof' = FALSE
  /\ frames' = 0
  /\ buf' = <<>>
  /\ pkt' = <<>>
  /\ chk' = <<>>
  /\ sent' = <<>>
  /\ rx' = NoRx
  /\ branch' = "none"
  /\ eofSeen' = FALSE
  /\ lastG' = None
  /\ prevG' = (prevG \/ lastG # None)
  /\ UNCHANGED <<file, sb, args, log, rd>>

\* the server takes a connection and GDBHandler.handle starts: it builds
\* the Core and enters its loop
Accept ==
  /\ pc \in {"idle", "closed", "error"}
  /\ conn < MaxConns
  /\ conn' = conn + 1
  /\ LET c == CoreInit(args, log)
     IN IF c.ok
        THEN /\ core' = [mem |-> c.mem, regs |-> c.regs, built |-> TRUE]
             /\ pc' = "await"
        ELSE /\ core' = NoCore
             /\ pc' = "error"
  /\ wire' = <<>>
  /\ eof' = FALSE
  /\ frames' = 0
  /\ buf' = <<>>
  /\ pkt' = <<>>
  /\ chk' = <<>>
  /\ sent' = <<>>
  /\ rx' = NoRx
  /\ branch' = "none"
  /\ eofSeen' = FALSE
  /\ lastG' = None
  /\ prevG' = (prevG \/ lastG # None)
  /\ UNCHANGED <<file, sb, args, log, rd>>

\* the debugger sends a frame, or the first k bytes of one and then closes
DebuggerSend ==
  /\ Open
  /\ ~eof
  /\ wire = <<>>
  /\ frames < MaxFrames
  /\ \E f \in DebuggerFrames :
       \E k \in 1..Len(f) :
         /\ wire' = SubSeq(f, 1, k)
         /\ eof' = (k < Len(f))
  /\ frames' = frames + 1
  /\ UNCHANGED <<file, sb, prevG, args, log, conn, pc, core, buf, pkt, chk, sent, rx, branch, lastG,
                 eofSeen, rd>>

\* the debugger closes the stream
DebuggerClose ==
  /\ Open
  /\ ~eof
  /\ eof' = TRUE
  /\ UNCHANGED <<file, sb, prevG, args, log, conn, pc, core, wire, frames, buf, pkt, chk, sent,
                 rx, branch, lastG, eofSeen, rd>>

\* self.request.recv(1) can return: a byte is waiting, or the stream is
\* closed and drained
CanRecv == wire # <<>> \/ eof
AtEof == wire = <<>>

\* handle's loop body from the return of read_packet (ret, having sent out)
\* to the next expect_packet_start
Dispatch(ret, out) ==
  LET d == handle_packet(core, ret)
  IN /\ branch' = d.branch
     /\ lastG' = IF d.ok /\ d.branch = "G" THEN Some(Drop(ret, 1)) ELSE lastG
     /\ IF d.ok
        THEN /\ core' = [core EXCEPT !.regs = d.regs]
             /\ sent' = sent \o out \o d.out
             /\ pc' = "await"
        ELSE /\ core' = core
             /\ sent' = sent \o out
             /\ pc' = "error"
     /\ buf' = <<>>

\* read_packet from the point where pkt p and chk c are complete
Judge(p, c) ==
  LET j == read_packet_judge(p, c)
  IN IF j.ok THEN Dispatch(j.ret, j.out)
     ELSE /\ pc' = "error"
          /\ buf' = <<>>
          /\ UNCHANGED <<core, sent, branch, lastG>>

\* expect_packet_start: one recv(1) of read_until('$')
ExpectPacketStart ==
  /\ pc = "await"
  /\ CanRecv
  /\ IF AtEof
     THEN /\ pc' = "closed"
          /\ eofSeen' = TRUE
          /\ UNCHANGED <<wire, buf, sent, rx, branch, lastG>>
     ELSE /\ wire' = Tail(wire)
          /\ eofSeen' = eofSeen
          /\ IF Head(wire) = "$"
             THEN /\ pc' = IF PacketStarted(buf) THEN "payload" ELSE "closed"
                  /\ buf' = <<>>
                  /\ IF PacketStarted(buf)
                     THEN /\ sent' = <<>> /\ rx' = NoRx /\ branch' = "none"
                          /\ lastG' = lastG
                     ELSE UNCHANGED <<sent, rx, branch, lastG>>
             ELSE /\ pc' = pc
                  /\ buf' = Append(buf, Head(wire))
                  /\ UNCHANGED <<sent, rx, branch, lastG>>
  /\ UNCHANGED <<file, sb, prevG, args, log, conn, core, eof, frames, pkt, chk, rd>>

\* read_packet: one recv(1) of read_until('#'); at end of stream read_until
\* returns "", both recv(1) for chk return "", and read_packet returns ""
ReadPayload ==
  /\ pc = "payload"
  /\ CanRecv
  /\ IF AtEof
     THEN /\ eofSeen' = TRUE
          /\ pkt' = <<>>
          /\ chk' = <<>>
          /\ Judge(<<>>, <<>>)
          /\ UNCHANGED <<wire, rx>>
     ELSE /\ wire' = Tail(wire)
          /\ eofSeen' = eofSeen
          /\ IF Head(wire) = "#"
             THEN /\ pc' = "chk1"
                  /\ pkt' = buf
                  /\ buf' = <<>>
                  /\ chk' = <<>>
             ELSE /\ pc' = pc
                  /\ buf' = Append(buf, Head(wire))
                  /\ UNCHANGED <<pkt, chk>>
          /\ UNCHANGED <<core, sent, rx, branch, lastG>>
  /\ UNCHANGED <<file, sb, prevG, args, log, conn, eof, frames, rd>>

\* read_packet: the first recv(1) for chk
ReadChk1 ==
  /\ pc = "chk1"
  /\ CanRecv
  /\ IF AtEof
     THEN /\ eofSeen' = TRUE
          /\ Judge(pkt, chk)
          /\ UNCHANGED <<wire, chk, rx>>
     ELSE /\ wire' = Tail(wire)
          /\ eofSeen' = eofSeen
          /\ chk' = Append(chk, Head(wire))
          /\ pc' = "chk2"
          /\ UNCHANGED <<core, buf, sent, rx, branch, lastG>>
  /\ UNCHANGED <<file, sb, prevG, args, log, conn, eof, frames, pkt, rd>>

\* read_packet: the second recv(1) for chk, the checksum test, and the
\* dispatch of what read_packet returns
ReadChk2 ==
  /\ pc = "chk2"
  /\ CanRecv
  /\ IF AtEof
     THEN /\ eofSeen' = TRUE
          /\ Judge(pkt, chk)
          /\ UNCHANGED <<wire, chk, rx>>
     ELSE /\ wire' = Tail(wire)
          /\ eofSeen' = eofSeen
          /\ chk' = Append(chk, Head(wire))
          /\ rx' = [seen |-> TRUE, payload |-> pkt, chk |-> chk',
                    regs |-> core.regs]
          /\ Judge(pkt, chk')
  /\ UNCHANGED <<file, sb, prevG, args, log, conn, eof, frames, pkt, rd>>

Next ==
  \/ Accept
  \/ DebuggerSend
  \/ DebuggerClose
  \/ ExpectPacketStart
  \/ ReadPayload
  \/ ReadChk1
  \/ ReadChk2

Spec == Init /\ [][Next]_vars

(***************************************************************************)
(* Vocabulary of the session properties.                                   *)
(***************************************************************************)
TwoHexDigits(c) == Len(c) = 2 /\ IsHexDigit(c[1]) /\ IsHexDigit(c[2])
DigitsValue(c) == 16 * HexDigitVal(c[1]) + HexDigitVal(c[2])

\* the packet just judged carried two checksum digits that do not / do equal
\* the sum of its payload bytes mod 256
Mismatched ==
  rx.seen /\ TwoHexDigits(rx.chk) /\ DigitsValue(rx.chk) # WireSum(rx.payload)
Matched ==
  rx.seen /\ TwoHexDigits(rx.chk) /\ DigitsValue(rx.chk) = WireSum(rx.payload)

IsLowerHex(c) == \E i \in 1..16 : LowerHex[i] = c

FramePayload(m) == SubSeq(m, 2, Len(m) - 3)

\* m is $payload#cc with cc the payload's byte sum mod 256 in two lowercase
\* hexadecimal digits
IsFramed(m) ==
  /\ Len(m) >= 4
  /\ m[1] = "$"
  /\ m[Len(m) - 2] = "#"
  /\ IsLowerHex(m[Len(m) - 1])
  /\ IsLowerHex(m[Len(m)])
  /\ DigitsValue(SubSeq(m, Len(m) - 1, Len(m))) = SumOrd(FramePayload(m)) % 256

\* p is one of the commands of the dispatch table
InDispatchTable(p) ==
  \/ p \in {PKT_STATUS, PKT_g, PKT_qC, PKT_qTStatus, PKT_qOffsets,
            PKT_qAttached, PKT_qSymbol}
  \/ p # <<>> /\ p[1] \in {"G", "m"}
  \/ startswith(p, PKT_Hg)
  \/ startswith(p, PKT_Hc)
  \/ startswith(p, PKT_qSupported)

EmptyResponse == <<"$", "#", "0", "0">>

\* C1: for a packet whose two checksum digits do not equal the payload sum
\* mod 256 the session sends exactly one '-', no '+' and no framed response,
\* and dispatches nothing: the registers stay as they were.
C1_MismatchSendsOneNackNoDispatch ==
  Mismatched =>
    /\ sent = <<NACK>>
    /\ branch = "none"
    /\ core.regs = rx.regs

\* C2: judging a packet with a mismatched checksum does not end the session:
\* the handler goes back to awaiting a packet start.
C2_MismatchKeepsSessionAwaiting ==
  [][(pc = "chk2" /\ Mismatched') => pc' = "await"]_vars

\* C3: for a packet whose two checksum digits equal the payload sum mod 256
\* (any payload, the empty one included) the session sends exactly one '+'
\* and after it exactly one framed response, and goes on awaiting packets.
C3_MatchSendsAckThenOneFramedResponse ==
  Matched =>
    /\ Len(sent) = 2
    /\ sent[1] = ACK
    /\ IsFramed(sent[2])
    /\ pc # "error"

\* C7: handle's loop ends (CLOSED) only after a recv has returned no byte;
\* a '$' never ends it, however many bytes came before it.
C7_ClosedOnlyOnEndOfStream ==
  pc = "closed" => eofSeen

\* C8: when a recv returns no byte, wherever the session stands, it goes to
\* CLOSED without an error, without dispatching and without sending.
C8_EndOfStreamClosesQuietly ==
  [][(~eofSeen /\ eofSeen') =>
       (pc' = "closed" /\ sent' = sent /\ branch' = branch /\ core' = core)]_vars

\* C9: a correctly check-summed packet whose payload is not a command of the
\* dispatch table is acknowledged and answered with the empty framed
\* response $#00, and the session does not end in an error.
C9_UnknownCommandGetsEmptyResponse ==
  (Matched /\ ~InDispatchTable(rx.payload)) =>
    /\ sent = <<ACK, EmptyResponse>>
    /\ pc # "error"

\* C10: every response the session sends is $payload#cc with cc the sum of
\* the payload's byte values mod 256 as exactly two lowercase hexadecimal
\* digits; the only other things it sends are the single bytes '+' and '-'.
C10_ResponsesAreFramedWithChecksum ==
  \A i \in 1..Len(sent) : sent[i] \in {ACK, NACK} \/ IsFramed(sent[i])

\* a response was sent whose payload bytes sum to more than 255
C10_Witness ==
  \E i \in 1..Len(sent) :
    /\ IsFramed(sent[i])
    /\ SumOrd(FramePayload(sent[i])) > 255

\* the two lowercase hexadecimal digits of each byte of bs, in order
RECURSIVE HexOfBytes(_)
HexOfBytes(bs) ==
  IF bs = <<>> THEN <<>> ELSE WireHex(bs[1]) \o HexOfBytes(Drop(bs, 1))

\* the register bytes the dump record carries
DumpRegisterBytes ==
  log[1][CHOOSE i \in 1..Len(log[1]) : log[1][i].k = "REGS"].v.data

IsLowerHexText(h) == Len(h) % 2 = 0 /\ \A i \in 1..Len(h) : IsLowerHex(h[i])

\* C11: the answer to a g packet is the hex encoding of the dump's register
\* bytes while no G packet has been dispatched on the connection, and after
\* a G<hex> with even-length lowercase hex it is exactly <hex>, until the
\* next G.
C11_RegisterRoundTrip ==
  (Matched /\ rx.payload = PKT_g /\ (lastG # None => IsLowerHexText(lastG[1])))
    => /\ Len(sent) = 2
       /\ sent[1] = ACK
       /\ IsFramed(sent[2])
       /\ FramePayload(sent[2]) =
            IF lastG = None THEN HexOfBytes(DumpRegisterBytes) ELSE lastG[1]

\* a g packet was answered after G0aff had replaced the registers
C11_Witness ==
  /\ Matched
  /\ rx.payload = PKT_g
  /\ lastG = Some(<<"0", "a", "f", "f">>)
  /\ Len(sent) = 2

\* C12: on a connection the memory map never changes, and the register
\* buffer changes only in a step that dispatches a G packet; every other
\* command leaves both as they were.
C12_OnlyGChangesSnapshot ==
  [][(conn' = conn /\ core.built) =>
       /\ core'.mem = core.mem
       /\ (core'.regs # core.regs =>
             /\ branch' = "G"
             /\ rx'.seen
             /\ rx'.payload # <<>>
             /\ rx'.payload[1] = "G")]_vars

\* a memory read was answered on a connection whose registers a G packet had
\* overwritten before
C12_Witness ==
  /\ Matched
  /\ branch = "m"
  /\ pc = "await"
  /\ lastG # None
  /\ core.regs # DumpRegisterBytes

\* C13: a connection on which no G packet has been dispatched holds the
\* dump's own register bytes, whatever earlier connections did, and a g
\* packet on it returns their hex encoding.
C13_ConnectionsShareNoState ==
  (core.built /\ pc # "loaded" /\ lastG = None) =>
    /\ core.regs = DumpRegisterBytes
    /\ (Matched /\ rx.payload = PKT_g) =>
         /\ Len(sent) = 2
         /\ FramePayload(sent[2]) = HexOfBytes(DumpRegisterBytes)

\* the second connection answered a g packet, with no G before it, after the
\* first connection had dispatched a G packet
C13_Witness ==
  /\ prevG
  /\ conn = 2
  /\ lastG = None
  /\ Matched
  /\ rx.payload = PKT_g
  /\ Len(sent) = 2

\* the ways in which loading the snapshot fails
MissingMarker == log = None

MalformedRecord ==
  /\ log # None
  /\ \/ \E i \in 1..Len(log[1]) :
          /\ log[1][i].k # "REGS"
          /\ log[1][i].v.isdict
          /\ ~({"addr", "data"} \subseteq log[1][i].v.has)
     \/ \A i \in 1..Len(log[1]) : log[1][i].k # "REGS"

UnreadableFirmware == ~args.iram.readable \/ ~args.irom.readable

NonHexFirmwareName ==
  \/ args.iram_addr = None /\ ~AllHex(args.iram.name)
  \/ args.irom_addr = None /\ ~AllHex(args.irom.name)

LoadFails ==
  MissingMarker \/ MalformedRecord \/ UnreadableFirmware \/ NonHexFirmwareName

\* nothing has been read from or sent to the debugger on this connection
NothingExchanged ==
  /\ sent = <<>>
  /\ buf = <<>>
  /\ pkt = <<>>
  /\ chk = <<>>
  /\ ~rx.seen
  /\ ~eofSeen

\* C14: while the snapshot is not loaded nothing has been read from or sent
\* to the debugger, and a connection whose load fails (missing marker,
\* malformed record, unreadable firmware file, non-hex firmware name) has
\* ended with nothing sent.
C14_LoadPrecedesProtocol ==
  /\ (~core.built \/ LoadFails) => NothingExchanged
  /\ (conn >= 1 /\ LoadFails) => (pc = "error" /\ ~core.built)

\* a connection was taken on a log without a dump and has ended
C14_Witness ==
  /\ conn >= 1
  /\ MissingMarker
  /\ pc = "error"
  /\ sent = <<>>

(***************************************************************************)
(* Core._read and Core._search_backwards.  A log is [size, starts, ends]:  *)
(* its length and the offsets at which START_DELIM and END_DELIM occur.    *)
(***************************************************************************)

\* the width of a search window, the step between windows, len(START_DELIM)
\* = len(END_DELIM)
SearchWindow == 10000
SearchStep == 5000
DelimLen == 23

MaxOf(S) == CHOOSE x \in S : \A y \in S : y <= x

\* data.rfind(pattern), data being the bytes [lo, hi) of the log and occ the
\* offsets at which pattern occurs in the log
rfind(occ, lo, hi) ==
  LET inside == {p \in occ : lo <= p /\ p + DelimLen <= hi}
  IN IF inside = {} THEN 0 - 1 ELSE MaxOf(inside) - lo

\* a search that reads only one step's worth of bytes at each window
ReadLen_one_step(start_offset) == Min(SearchStep, start_offset)

\* the argument of f.read() in _search_backwards
ReadLen(start_offset) == Min(SearchWindow, start_offset)

\* a search that moves forward by a whole window before stepping back
NextOffset_whole_window(offset) == offset + SearchWindow

\* offset += 5000
NextOffset(offset) == offset + SearchStep

\* one iteration of the loop of _search_backwards
SearchIteration(occ, size, start_offset, offset0) ==
  LET offset == Max(0, offset0 - SearchWindow)
      pos == rfind(occ, offset, Min(offset + ReadLen(start_offset), size))
  IN IF pos >= 0 THEN [returns |-> TRUE, val |-> offset + pos, win |-> offset]
     ELSE IF offset = 0 THEN [returns |-> TRUE, val |-> 0 - 1, win |-> offset]
     ELSE [returns |-> FALSE, val |-> NextOffset(offset), win |-> offset]

\* the state of a call of _search_backwards: the pattern searched, the
\* arguments, offset at the top of the loop, the iterations made, the offset
\* of the last window read, and what _read has found so far
Searching(which, start_offset, end_pos) ==
  [phase |-> "search", which |-> which, start_offset |-> start_offset,
   offset |-> start_offset, iters |-> 0, win |-> start_offset, ret |-> 0 - 1,
   end_pos |-> end_pos, start_pos |-> 0 - 1]

\* logs: delimiters at and around the multiples of the search step
Boundaries == {SearchStep * k : k \in 0..MaxWindows}
LogOffsets ==
  {o \in {b + d : b \in Boundaries, d \in {0 - 23, 0 - 12, 0, 20}} : o >= 0}
LogSizes == {b + e : b \in Boundaries, e \in {0, 23}}
AtMostTwo(S) == {{}} \cup {{x, y} : x, y \in S}

\* the offsets at which a delimiter fits in a log of n bytes
LogPositions(n) == {o \in LogOffsets : o + DelimLen <= n}

\* two delimiters overlap by at most three dashes
WellFormedLog(ss, es) ==
  /\ ss \cap es = {}
  /\ \A p, q \in ss \cup es : p # q => (p - q >= 20 \/ q - p >= 20)

InitSearch ==
  /\ \E n \in LogSizes :
       \E ss \in AtMostTwo(LogPositions(n)), es \in AtMostTwo(LogPositions(n)) :
         /\ WellFormedLog(ss, es)
         /\ file = [size |-> n, starts |-> ss, ends |-> es]
  /\ sb = NoSearch
  /\ args \in {a \in SessionArgs : a.rom # None}
  /\ log = None
  /\ conn = 0
  /\ pc = "idle"
  /\ core = NoCore
  /\ wire = <<>>
  /\ eof = FALSE
  /\ frames = 0
  /\ buf = <<>>
  /\ pkt = <<>>
  /\ chk = <<>>
  /\ sent = <<>>
  /\ rx = NoRx
  /\ branch = "none"
  /\ eofSeen = FALSE
  /\ rd = NoRead
  /\ lastG = None
  /\ prevG = FALSE

\* _read opens the log, takes its size and calls _search_backwards for END_DELIM
ReadOpen ==
  /\ sb.phase = "none"
  /\ sb' = Searching("end", file.size, 0 - 1)
  /\ UNCHANGED <<file, prevG, args, log, conn, pc, core, wire, eof, frames,
                 buf, pkt, chk, sent, rx, branch, lastG, eofSeen, rd>>

\* one iteration of the loop of _search_backwards
SearchIter ==
  /\ sb.phase = "search"
  /\ LET occ == IF sb.which = "end" THEN file.ends ELSE file.starts
         it == SearchIteration(occ, file.size, sb.start_offset, sb.offset)
     IN sb' = [sb EXCEPT !.iters = @ + 1,
                         !.win = it.win,
                         !.phase = IF it.returns THEN "returned" ELSE "search",
                         !.offset = IF it.returns THEN @ ELSE it.val,
                         !.ret = IF it.returns THEN it.val ELSE @]
  /\ UNCHANGED <<file, prevG, args, log, conn, pc, core, wire, eof, frames,
                 buf, pkt, chk, sent, rx, branch, lastG, eofSeen, rd>>

\* _read after a call of _search_backwards returned: it gives up on -1,
\* searches START_DELIM back from end_pos, or has found both
ReadResume ==
  /\ sb.phase = "returned"
  /\ sb' = IF sb.ret = 0 - 1 THEN [sb EXCEPT !.phase = "fail"]
           ELSE IF sb.which = "end" THEN Searching("start", sb.ret, sb.ret)
           ELSE [sb EXCEPT !.phase = "done", !.start_pos = sb.ret + DelimLen]
  /\ UNCHANGED <<file, prevG, args, log, conn, pc, core, wire, eof, frames,
                 buf, pkt, chk, sent, rx, branch, lastG, eofSeen, rd>>

NextSearch == ReadOpen \/ SearchIter \/ ReadResume
SpecSearch == InitSearch /\ [][NextSearch]_vars /\ WF_vars(NextSearch)

\* the last end marker of the log, and the start markers lying entirely
\* before an offset
LastEnd == MaxOf(file.ends)
StartsBefore(e) == {p \in file.starts : p + DelimLen <= e}
HasSnippet == \E p \in file.starts, e \in file.ends : p + DelimLen <= e
Straddles(p, b) == p < b /\ b < p + DelimLen

\* C15: on a log holding a start...end pair, _read ends having found the
\* last end marker of the log and the last start marker lying entirely
\* before it.
C15_ReadSelectsLastCompletePair ==
  (sb.phase \in {"done", "fail"} /\ HasSnippet) =>
    /\ sb.phase = "done"
    /\ sb.end_pos = LastEnd
    /\ sb.start_pos = MaxOf(StartsBefore(LastEnd)) + DelimLen

\* a log with two pairs was read, and the start marker found straddles a
\* boundary of the windows searched back from the end marker
C15_Witness ==
  /\ sb.phase = "done"
  /\ Cardinality(file.starts) = 2
  /\ Cardinality(file.ends) = 2
  /\ Cardinality(StartsBefore(LastEnd)) = 2
  /\ \E k \in 1..MaxWindows :
       Straddles(sb.start_pos - DelimLen, sb.end_pos - SearchStep * k)

\* C19: every iteration of _search_backwards after the first reads a
\* window at a strictly lower offset than the one before, an iteration at
\* window offset 0 returns, with an occurrence or -1, the iterations of a
\* call number at most start_offset / 5000 + 1, and every search ends.
C19_SearchTerminates ==
  /\ [][(sb.phase = "search" /\ sb'.iters = sb.iters + 1) =>
          /\ sb.iters >= 1 => (sb'.win < sb.win /\ sb.win > 0)
          /\ sb'.win >= 0
          /\ sb'.win = 0 => sb'.phase = "returned"
          /\ sb'.iters <= (sb.start_offset \div SearchStep) + 1
          /\ sb'.phase = "returned" =>
               \/ sb'.ret = 0 - 1
               \/ sb'.ret \in file.starts \cup file.ends]_vars
  /\ <>(sb.phase \in {"done", "fail"})

\* a search gave up at window offset 0 after three iterations
C19_Witness ==
  /\ sb.phase = "returned"
  /\ sb.iters >= 3
  /\ sb.win = 0
  /\ sb.ret = 0 - 1

(***************************************************************************)
(* SpecFirmware: a Core is built from firmware files of various names and  *)
(* contents, with and without explicit addresses, then read.               *)
(***************************************************************************)
FirmwareNames == {<<"1", "1", "0", "0", "0">>, <<"2">>, <<"A", "0">>}
FirmwareData == {<<234, 4, 50>>, <<234, 5, 50>>, <<4, 234>>, <<234, 4>>, <<7>>}
FirmwareFiles == {File(n, d) : n \in FirmwareNames, d \in FirmwareData}

FirmwareArgs ==
  {[iram_addr |-> ia, iram |-> File(<<"A", "0">>, d),
    irom_addr |-> oa, irom |-> f,
    rom |-> Some(RomFile), rom_addr |-> Some(ROM_BASE)]
     : ia \in {None, Some(0)}, d \in {<<234, 4, 35>>, <<33, 34, 35>>},
       oa \in {None, Some(MaxAddr)}, f \in FirmwareFiles}

InitFirmware ==
  /\ args \in FirmwareArgs
  /\ log = Some(SessionDump)
  /\ conn = 0
  /\ pc = "idle"
  /\ core = NoCore
  /\ wire = <<>>
  /\ eof = FALSE
  /\ frames = 0
  /\ buf = <<>>
  /\ pkt = <<>>
  /\ chk = <<>>
  /\ sent = <<>>
  /\ rx = NoRx
  /\ branch = "none"
  /\ eofSeen = FALSE
  /\ rd = NoRead
  /\ lastG = None
  /\ prevG = FALSE
  /\ file = NoFile
  /\ sb = NoSearch

SpecFirmware == InitFirmware /\ [][NextCore]_vars

\* the regions of the two firmware files in a memory map that ends with the
\* ROM region
IramRegion == core.mem[Len(core.mem) - 2]
IromRegion == core.mem[Len(core.mem) - 1]

HasMagic(f) == Len(f.data) >= 2 /\ f.data[1] = 234 /\ f.data[2] = 4

\* where the region of firmware file f starts
LoadAddress(addr, f, base) ==
  (IF addr = None THEN base + HexDigitsVal(f.name) ELSE addr[1])
    + (IF HasMagic(f) THEN 16 ELSE 0)

IsMappedAt(r, start, f) ==
  /\ r.base = start
  /\ r.end = start + Len(f.data)
  /\ r.data = f.data

NonDictValue == [isdict |-> FALSE, has |-> {}, addr |-> 0, data |-> <<>>]
NoDataValue == [isdict |-> TRUE, has |-> {"addr"}, addr |-> 0, data |-> <<>>]
NoAddrValue == [isdict |-> TRUE, has |-> {"data"}, addr |-> 0, data |-> <<17>>]

EntryValues ==
  {DictValue(0, <<17>>), DictValue(1, <<18, 19>>),
   NonDictValue, NoDataValue, NoAddrValue}

RegsEntries ==
  {<<>>} \cup
  {<<[k |-> "REGS", v |-> v]>> :
     v \in {RegsValue(DumpRegsData), NonDictValue, NoDataValue}}

DecodeDumps ==
  UNION {{Keyed(vs) \o r : vs \in [1..n -> EntryValues], r \in RegsEntries}
           : n \in 0..MaxRegions}

InitDecode ==
  /\ args \in {a \in SessionArgs : a.rom # None}
  /\ log \in {Some(d) : d \in DecodeDumps}
  /\ conn = 0
  /\ pc = "idle"
  /\ core = NoCore
  /\ wire = <<>>
  /\ eof = FALSE
  /\ frames = 0
  /\ buf = <<>>
  /\ pkt = <<>>
  /\ chk = <<>>
  /\ sent = <<>>
  /\ rx = NoRx
  /\ branch = "none"
  /\ eofSeen = FALSE
  /\ rd = NoRead
  /\ lastG = None
  /\ prevG = FALSE
  /\ file = NoFile
  /\ sb = NoSearch

SpecDecode == InitDecode /\ [][NextCore]_vars

\* the entries of the record other than REGS, by shape
RegionIndexes == {i \in 1..Len(log[1]) : log[1][i].k # "REGS"}
NonObjectEntry(i) == i \in RegionIndexes /\ ~log[1][i].v.isdict
IncompleteObject(i) ==
  /\ i \in RegionIndexes
  /\ log[1][i].v.isdict
  /\ ~({"addr", "data"} \subseteq log[1][i].v.has)
CompleteObject(i) ==
  /\ i \in RegionIndexes
  /\ log[1][i].v.isdict
  /\ {"addr", "data"} \subseteq log[1][i].v.has
RegistersUsable ==
  \E i \in 1..Len(log[1]) :
    /\ log[1][i].k = "REGS"
    /\ log[1][i].v.isdict
    /\ "data" \in log[1][i].v.has

\* the regions a built Core holds ahead of its three firmware regions
ServedDumpRegions == SubSeq(core.mem, 1, Len(core.mem) - 3)

\* C17 as stated: a record with a region entry that is not an object with
\* addr and data, or without a register entry, never yields a Core.
C17_MalformedEntryFailsConstruction ==
  (pc # "idle" /\ (\/ \E i \in RegionIndexes : NonObjectEntry(i) \/ IncompleteObject(i)
                   \/ ~RegistersUsable))
    => ~core.built

\* C17: a record with an object entry lacking addr or data, or without a
\* usable register entry, yields no Core at all, while entries that are not
\* objects are passed over: a built Core holds one region for each complete
\* object entry of the record, and only those.
C17_IncompleteObjectFailsConstruction ==
  /\ (pc # "idle" /\ ((\E i \in RegionIndexes : IncompleteObject(i)) \/ ~RegistersUsable))
       => (~core.built /\ pc = "error" /\ core.mem = <<>>)
  /\ core.built =>
       /\ Len(ServedDumpRegions) = Cardinality({i \in RegionIndexes : CompleteObject(i)})
       /\ \A i \in RegionIndexes :
            CompleteObject(i) =>
              \E n \in 1..Len(ServedDumpRegions) :
                /\ ServedDumpRegions[n].base = log[1][i].v.addr
                /\ ServedDumpRegions[n].end = log[1][i].v.addr + Len(log[1][i].v.data)
                /\ ServedDumpRegions[n].data = log[1][i].v.data

\* construction failed on a record holding a complete region entry next to
\* an object lacking its data
C17_Witness ==
  /\ pc = "error"
  /\ ~core.built
  /\ RegistersUsable
  /\ \E i, j \in RegionIndexes : CompleteObject(i) /\ IncompleteObject(j)

\* C18: without a ROM file construction succeeds and the memory map is the
\* dump's regions followed by exactly the iram and irom regions; a ROM
\* region is mapped only when a ROM file is given.
C18_RomSectionIsOptional ==
  pc # "idle" =>
    /\ args.rom = None =>
         /\ core.built
         /\ Len(core.mem) = Len(DumpRegions) + 2
         /\ SubSeq(core.mem, 1, Len(DumpRegions)) = DumpRegions
    /\ (core.built /\ Len(core.mem) > Len(DumpRegions) + 2) => args.rom # None

====
